---- MODULE Spec2Model ----
(***************************************************************************)
(* Pattern compiler of autotranceweb: sources, combinators and compile.    *)
(*                                                                         *)
(* A Pattern is a closure from a TimeSpan to a list of Events.  Here a     *)
(* closure is the record of what it captured (op and captured arguments),  *)
(* and Query(pat, s) is the call pat(s).  Cycle time is an exact rational  *)
(* <<num, den>> (den > 0, lowest terms): the model covers the runs in      *)
(* which the floating point arithmetic of the code is exact.               *)
(***************************************************************************)
EXTENDS Integers, Sequences, FiniteSets, TLC

VARIABLES
  pat,       \* the pattern (closure) in hand
  hist,      \* how it was built: the combinators applied, each with its argument
  span,      \* the span of the last call made on pat
  events,    \* the events that call returned
  fault,     \* whether that call threw
  options,   \* the options of that call, when it was a compile
  timeline,  \* the Timeline compile returned
  calls,     \* the number of pattern calls made so far
  ref,       \* the first call made: its pattern, span and outcome
  files,       \* the disk: the mantra file of each theme
  mantraCache, \* let mantraCache: Map<string, Mantra[]> | null
  loaded,      \* the last call of the loader: its function, theme and result
  served       \* per theme, what getMantrasForTheme last returned since the
               \* cache was last cleared

loaderVars == <<files, mantraCache, loaded, served>>

vars == <<pat, hist, span, events, fault, options, timeline, calls, ref,
          files, mantraCache, loaded, served>>

---------------------------------------------------------------------------
(* Bounds of the model *)

\* combinators applied on top of a source
MaxOps == 2
\* calls made in a run that calls patterns repeatedly
MaxCalls == 3
\* largest cycle count handed to compile
MaxCycles == 4

---------------------------------------------------------------------------
(* Exact numbers: JavaScript numbers restricted to rationals *)

RECURSIVE GCD(_, _)
GCD(a, b) == IF b = 0 THEN a ELSE GCD(b, a % b)

Abs(n) == IF n < 0 THEN -n ELSE n

Rat(n, d) ==
  LET g == GCD(Abs(n), Abs(d))
      sg == IF d < 0 THEN -1 ELSE 1
  IN <<sg * (n \div g), sg * (d \div g)>>

R(n) == <<n, 1>>

RAdd(a, b) ==
  IF b[2] = 1 THEN <<a[1] + b[1] * a[2], a[2]>>
  ELSE Rat(a[1] * b[2] + b[1] * a[2], a[2] * b[2])
RNeg(a) == <<-a[1], a[2]>>
RSub(a, b) == RAdd(a, RNeg(b))
RMul(a, b) == Rat(a[1] * b[1], a[2] * b[2])
RDiv(a, b) == Rat(a[1] * b[2], a[2] * b[1])
RLt(a, b) == a[1] * b[2] < b[1] * a[2]
RLe(a, b) == a[1] * b[2] <= b[1] * a[2]
RMax(a, b) == IF RLt(a, b) THEN b ELSE a
RMin(a, b) == IF RLt(b, a) THEN b ELSE a
\* Math.floor and Math.ceil, as integers
RFloor(a) == a[1] \div a[2]
RCeil(a) == -((-a[1]) \div a[2])

\* the % of JavaScript: the remainder takes the sign of the dividend
JsMod(a, n) == IF a >= 0 THEN a % n ELSE -((-a) % n)

\* the value undefined of JavaScript
Undefined == "undefined"

\* an index read that is off by one
JsIndexOff(arr, i) == IF i + 1 >= 0 /\ i + 1 < Len(arr) THEN arr[i + 2] ELSE Undefined

\* arr[i] of JavaScript on a 0-based array: undefined outside 0..length-1
JsIndex(arr, i) == IF i >= 0 /\ i < Len(arr) THEN arr[i + 1] ELSE Undefined

---------------------------------------------------------------------------
(* Time-span algebra *)

Span(start, end) == [start |-> start, end |-> end]

spansOverlap(a, b) == RLt(a.start, b.end) /\ RLt(b.start, a.end)

Null == [null |-> TRUE]

\* a clipping that takes the hull of the two spans instead of their overlap
spanHull(a, b) ==
  IF ~spansOverlap(a, b) THEN Null
  ELSE Span(RMin(a.start, b.start), RMax(a.end, b.end))

spanIntersection(a, b) ==
  IF ~spansOverlap(a, b) THEN Null
  ELSE Span(RMax(a.start, b.start), RMin(a.end, b.end))

spanDuration(s) == RSub(s.end, s.start)

Event(v, whole, part) == [value |-> v, whole |-> whole, part |-> part]

---------------------------------------------------------------------------
(* The outcome of a call pat(querySpan): the returned array, or a thrown   *)
(* TypeError (calling or reading through undefined).                       *)

Ok(evs) == [fault |-> FALSE, events |-> evs]
Thrown == [fault |-> TRUE, events |-> <<>>]

RECURSIVE Flatten(_)
Flatten(ss) ==
  IF Len(ss) = 0 THEN <<>>
  ELSE IF Len(ss) = 1 THEN ss[1]
  ELSE LET h == Len(ss) \div 2
       IN Flatten(SubSeq(ss, 1, h)) \o Flatten(SubSeq(ss, h + 1, Len(ss)))

\* the results of the calls made in order; a throw in any of them propagates
Collect(rs) ==
  IF \E i \in 1..Len(rs) : rs[i].fault THEN Thrown
  ELSE Ok(Flatten([i \in 1..Len(rs) |-> rs[i].events]))

\* events.map(e => ({value, whole: whole / factor, part: part / factor}))
DivEvents(r, factor) ==
  IF r.fault THEN r
  ELSE Ok(<<>> \o [i \in 1..Len(r.events) |->
            Event(r.events[i].value,
                  Span(RDiv(r.events[i].whole.start, factor), RDiv(r.events[i].whole.end, factor)),
                  Span(RDiv(r.events[i].part.start, factor), RDiv(r.events[i].part.end, factor)))])

\* events.map(e => ({value, whole: whole + delta, part: part + delta}))
ShiftEvents(r, delta) ==
  IF r.fault THEN r
  ELSE Ok(<<>> \o [i \in 1..Len(r.events) |->
            Event(r.events[i].value,
                  Span(RAdd(r.events[i].whole.start, delta), RAdd(r.events[i].whole.end, delta)),
                  Span(RAdd(r.events[i].part.start, delta), RAdd(r.events[i].part.end, delta)))])

---------------------------------------------------------------------------
(* Sources *)

IsNull(x) == "null" \in DOMAIN x

\* const part = spanIntersection(whole, querySpan); if (part) events.push(...)
\* over the candidates <<value, whole>> in loop order
Clip(cands, querySpan) ==
  LET withPart == <<>> \o [i \in 1..Len(cands) |->
                     Event(cands[i].value, cands[i].whole,
                           spanIntersection(cands[i].whole, querySpan))]
  IN SelectSeq(withPart, LAMBDA e : ~IsNull(e.part))

silence == [op |-> "silence"]

pure(value) == [op |-> "pure", value |-> value]

seq(values) == IF Len(values) = 0 THEN silence ELSE [op |-> "seq", values |-> values]

\* pure without the clipping of the part: every event reports its whole cycle
QueryPureUnclipped(value, querySpan) ==
  [fault |-> FALSE,
   events |-> <<>> \o [k \in 1..(RCeil(querySpan.end) - RFloor(querySpan.start)) |->
     [value |-> value,
      whole |-> [start |-> <<RFloor(querySpan.start) + k - 1, 1>>,
                 end |-> <<RFloor(querySpan.start) + k, 1>>],
      part |-> [start |-> <<RFloor(querySpan.start) + k - 1, 1>>,
                end |-> <<RFloor(querySpan.start) + k, 1>>]]]]

QueryPure(value, querySpan) ==
  LET startCycle == RFloor(querySpan.start)
      endCycle == RCeil(querySpan.end)
      cands == <<>> \o [k \in 1..(endCycle - startCycle) |->
                 [value |-> value,
                  whole |-> Span(R(startCycle + k - 1), R(startCycle + k))]]
  IN Ok(Clip(cands, querySpan))

QuerySeq(values, querySpan) ==
  LET n == Len(values)
      duration == Rat(1, n)
      startCycle == RFloor(querySpan.start)
      endCycle == RCeil(querySpan.end)
      cands == <<>> \o [k \in 1..((endCycle - startCycle) * n) |->
                 LET cycle == startCycle + ((k - 1) \div n)
                     i == (k - 1) % n
                 IN [value |-> values[i + 1],
                     whole |-> Span(RAdd(R(cycle), RMul(R(i), duration)),
                                    RAdd(R(cycle), RMul(R(i + 1), duration)))]]
  IN Ok(Clip(cands, querySpan))

---------------------------------------------------------------------------
(* seededRandom (mulberry32) on 32-bit words <<high 16 bits, low 16 bits>> *)

Half == 65536

\* ToInt32 / ToUint32 of an integer-valued number
ToU32(n) == <<(n \div Half) % Half, n % Half>>

U32Add(a, b) ==
  LET lo == a[2] + b[2]
  IN <<(a[1] + b[1] + (lo \div Half)) % Half, lo % Half>>

RECURSIVE BitXor(_, _, _)
BitXor(x, y, n) ==
  IF n = 0 THEN 0
  ELSE (((x % 2) + (y % 2)) % 2) + 2 * BitXor(x \div 2, y \div 2, n - 1)

RECURSIVE BitOr(_, _, _)
BitOr(x, y, n) ==
  IF n = 0 THEN 0
  ELSE (IF (x % 2) + (y % 2) > 0 THEN 1 ELSE 0) + 2 * BitOr(x \div 2, y \div 2, n - 1)

U32Xor(a, b) == <<BitXor(a[1], b[1], 16), BitXor(a[2], b[2], 16)>>

\* a | c for a constant c below 2^16
U32OrLow(a, c) == <<a[1], BitOr(a[2], c, 16)>>

\* a >>> k for 0 < k < 16
U32Shr(a, k) ==
  <<a[1] \div (2 ^ k), (a[2] \div (2 ^ k)) + (a[1] % (2 ^ k)) * (2 ^ (16 - k))>>

\* x * y modulo 2^16 for 16-bit x, y, without leaving 32 bits
MulMod16(x, y) == ((((x \div 256) * y) % 256) * 256 + (x % 256) * y) % Half

\* Math.imul: the low 32 bits of the product
Imul(a, b) ==
  LET p1 == (a[2] \div 256) * b[2]
      p0 == (a[2] % 256) * b[2]
      low == (p1 % 256) * 256 + p0
      hi == (p1 \div 256) + (low \div Half)
  IN <<(hi + MulMod16(a[1], b[2]) + MulMod16(a[2], b[1])) % Half, low % Half>>

\* the increment of the generator state, 0x6d2b79f5
MulberryStep == 1831565813

\* the word the closure returns (before / 4294967296) once its state is t
MulberryOut(t) ==
  LET t1 == Imul(U32Xor(t, U32Shr(t, 15)), U32OrLow(t, 1))
      t2 == U32Xor(t1, U32Add(t1, Imul(U32Xor(t1, U32Shr(t1, 7)), U32OrLow(t1, 61))))
  IN U32Xor(t2, U32Shr(t2, 14))

\* seededRandom(seed): the captured state of the returned closure
seededRandom(seed) == ToU32(seed)

\* one call rand(): the new state (seed += 0x6d2b79f5)
RandState(g) == U32Add(g, ToU32(MulberryStep))

\* Math.floor(rand() * k) for the call that leaves the state at g, 1 <= k < 2^15
RandFloor(g, k) ==
  LET u == MulberryOut(g)
  IN (u[1] * k + ((u[2] * k) \div Half)) \div Half

\* an exchange that copies result[j] to result[i] and loses result[i]
SwapCopy(arr, i, j) == [arr EXCEPT ![i + 1] = arr[j + 1]]

\* [result[i], result[j]] = [result[j], result[i]], 0-based
Swap(arr, i, j) == [arr EXCEPT ![i + 1] = arr[j + 1], ![j + 1] = arr[i + 1]]

\* the loop of shuffleWithSeed from index i down to 1, generator state g
RECURSIVE ShuffleFrom(_, _, _)
ShuffleFrom(result, i, g) ==
  IF i <= 0 THEN result
  ELSE LET g1 == RandState(g)
           j == RandFloor(g1, i + 1)
       IN ShuffleFrom(Swap(result, i, j), i - 1, g1)

shuffleWithSeed(arr, seed) == ShuffleFrom(arr, Len(arr) - 1, seededRandom(seed))

\* pool[Math.floor(seededRandom(itemSeed)() * pool.length)]
RandomPick(pool, itemSeed) ==
  JsIndex(pool, RandFloor(RandState(seededRandom(itemSeed)), Len(pool)))

\* a pick drawn from one generator shared by all calls: it depends on how many
\* calls came before
ItemSeedShared(seed, globalIndex) == seed + globalIndex + calls

\* the seed of the generator that picks the item of a slot of order 'random'
ItemSeed(seed, globalIndex) == seed + globalIndex

fromPool(pool, order, seed) ==
  IF Len(pool) = 0 THEN silence
  ELSE [op |-> "fromPool", pool |-> pool, order |-> order, seed |-> seed,
        orderedPool |-> IF order = "shuffle" THEN shuffleWithSeed(pool, seed) ELSE pool]

QueryPool(p, querySpan) ==
  LET itemDuration == Rat(1, Len(p.pool))
      startItem == RFloor(RDiv(querySpan.start, itemDuration))
      endItem == RCeil(RDiv(querySpan.end, itemDuration))
      cands == <<>> \o [k \in 1..(endItem - startItem) |->
                 LET globalIndex == startItem + k - 1
                 IN [value |-> IF p.order = "random"
                               THEN RandomPick(p.pool, ItemSeed(p.seed, globalIndex))
                               ELSE JsIndex(p.orderedPool,
                                            JsMod(globalIndex, Len(p.orderedPool))),
                     whole |-> Span(RMul(R(globalIndex), itemDuration),
                                    RMul(R(globalIndex + 1), itemDuration))]]
  IN Ok(Clip(cands, querySpan))

---------------------------------------------------------------------------
(* The mantra files, the loader and fromTheme *)

\* the value null of JavaScript, where a tag may hold it
NullTag == "null"

\* !v for a tag: null, undefined and the empty string are falsy
Falsy(v) == v \in {NullTag, Undefined, ""}

\* The entries that occur in the model's JSON files, each under the name the
\* model gives it.  A field an entry lacks is read as undefined.
RawEntries ==
  [f1 |-> [line |-> "Focus on my words", theme |-> "Focus", difficulty |-> "basic",
           dominant |-> NullTag, subject |-> NullTag],
   f2 |-> [line |-> "Your focus narrows", theme |-> "Focus", difficulty |-> "Light",
           dominant |-> NullTag, subject |-> "Bambi"],
   f3 |-> [line |-> "Master holds your focus", theme |-> "Focus",
           difficulty |-> "MODERATE", dominant |-> "Master", subject |-> "Doll"],
   f4 |-> [line |-> "Mistress owns your focus", theme |-> "Focus",
           difficulty |-> "deep", dominant |-> "Mistress"],
   f5 |-> [line |-> "Nothing but focus", theme |-> "Focus", difficulty |-> "DEEP",
           dominant |-> "", subject |-> ""],
   f6 |-> [line |-> "Focus without a level", theme |-> "Focus",
           dominant |-> NullTag, subject |-> NullTag],
   c1 |-> [line |-> "Calm fills you", theme |-> "Calm", difficulty |-> "EXTREME",
           dominant |-> NullTag, subject |-> NullTag],
   c2 |-> [line |-> "Calm and still", theme |-> "Calm", difficulty |-> "gentle",
           dominant |-> NullTag, subject |-> NullTag],
   a1 |-> [line |-> "Deeper than deep", theme |-> "Abyss", difficulty |-> "EXTREME",
           dominant |-> NullTag, subject |-> NullTag],
   g1 |-> [line |-> "Unlisted words", theme |-> "Ghost", difficulty |-> "BASIC",
           dominant |-> NullTag, subject |-> NullTag],
   e1 |-> [line |-> "Late words", theme |-> "Empty", difficulty |-> "MEDIUM",
           dominant |-> NullTag, subject |-> NullTag]]

\* entry.field
Field(entry, f) == IF f \in DOMAIN entry THEN entry[f] ELSE Undefined

\* fs.readdirSync(ONTOLOGIES_PATH) ... : the themes that have an ontology
listThemes == <<"Abyss", "Calm", "Empty", "Focus">>

ThemeNames == {"Abyss", "Calm", "Empty", "Focus", "Ghost", "Nowhere"}

\* a theme's mantra file: absent, unreadable or unparsable, or a JSON array
NoFile == [exists |-> FALSE, parses |-> FALSE, entries |-> <<>>]
BadFile == [exists |-> TRUE, parses |-> FALSE, entries |-> <<>>]
JsonFile(entries) == [exists |-> TRUE, parses |-> TRUE, entries |-> entries]

InitialDisk ==
  [t \in ThemeNames |->
     CASE t = "Focus" -> JsonFile(<<"f1", "f2", "f3", "f4", "f5">>)
       [] t = "Calm" -> JsonFile(<<"c1", "c2">>)
       [] t = "Abyss" -> JsonFile(<<"a1">>)
       [] t = "Ghost" -> JsonFile(<<"g1">>)
       [] OTHER -> NoFile]

\* raw.toUpperCase() on the difficulty strings of the entries
toUpperCase(raw) ==
  CASE raw = "basic" -> "BASIC"
    [] raw = "Light" -> "LIGHT"
    [] raw = "deep" -> "DEEP"
    [] raw = "gentle" -> "GENTLE"
    [] OTHER -> raw

DIFFICULTY_MAP ==
  [BASIC |-> "BASIC", LIGHT |-> "LIGHT", MEDIUM |-> "MEDIUM", MODERATE |-> "MEDIUM",
   DEEP |-> "DEEP", EXTREME |-> "EXTREME"]

\* DIFFICULTY_MAP[raw.toUpperCase()] || 'BASIC', for a raw that is a string
mapDifficulty(raw) ==
  IF toUpperCase(raw) \in DOMAIN DIFFICULTY_MAP
  THEN DIFFICULTY_MAP[toUpperCase(raw)] ELSE "BASIC"

\* The Mantra object raw.map makes of an entry.  A Mantra is passed around by
\* reference: a pattern value that is a Mantra is the name of its entry, and
\* MantraOf gives its fields.
MantraOf(name) ==
  [line |-> Field(RawEntries[name], "line"),
   theme |-> Field(RawEntries[name], "theme"),
   difficulty |-> mapDifficulty(Field(RawEntries[name], "difficulty")),
   dominant |-> Field(RawEntries[name], "dominant"),
   subject |-> Field(RawEntries[name], "subject")]

\* a loader whose failure to read or parse escapes
loadMantrasUncaught(disk, themeName) ==
  IF ~disk[themeName].exists THEN [fault |-> FALSE, mantras |-> <<>>]
  ELSE IF ~disk[themeName].parses THEN [fault |-> TRUE, mantras |-> <<>>]
  ELSE [fault |-> FALSE, mantras |-> disk[themeName].entries]

\* loadMantrasForTheme(themeName) on the disk as it is: the first category
\* that holds the file decides.  JSON.parse and raw.map run inside the try: a
\* file that does not parse, and an entry without a difficulty
\* (undefined.toUpperCase()), throw into the catch, which returns [].
loadMantrasForTheme(disk, themeName) ==
  IF ~disk[themeName].exists THEN [fault |-> FALSE, mantras |-> <<>>]
  ELSE IF ~disk[themeName].parses THEN [fault |-> FALSE, mantras |-> <<>>]
  ELSE IF \E i \in 1..Len(disk[themeName].entries) :
            Field(RawEntries[disk[themeName].entries[i]], "difficulty") = Undefined
       THEN [fault |-> FALSE, mantras |-> <<>>]
  ELSE [fault |-> FALSE, mantras |-> disk[themeName].entries]

NoCache == [none |-> TRUE]

\* the Map loadAllMantras builds: the listed themes that loaded some mantras
BuiltCache(disk) ==
  [t \in {listThemes[i] : i \in {k \in 1..Len(listThemes) :
                               Len(loadMantrasForTheme(disk, listThemes[k]).mantras) > 0}}
     |-> loadMantrasForTheme(disk, t).mantras]

\* mantraCache after getMantrasForTheme: if (!mantraCache) loadAllMantras()
CacheAfterGet(disk, cache) == IF cache = NoCache THEN BuiltCache(disk) ELSE cache

\* mantraCache?.get(themeName) || loadMantrasForTheme(themeName)
getMantrasForTheme(disk, cache, themeName) ==
  IF themeName \in DOMAIN CacheAfterGet(disk, cache)
  THEN CacheAfterGet(disk, cache)[themeName]
  ELSE loadMantrasForTheme(disk, themeName).mantras

\* whether getMantrasForTheme throws: a throw of loadMantrasForTheme would pass
\* through loadAllMantras and through getMantrasForTheme, which catch nothing
getMantrasThrows(disk, cache, themeName) ==
  \/ /\ cache = NoCache
     /\ \E i \in 1..Len(listThemes) : loadMantrasForTheme(disk, listThemes[i]).fault
  \/ /\ themeName \notin DOMAIN CacheAfterGet(disk, cache)
     /\ loadMantrasForTheme(disk, themeName).fault

DIFFICULTY_ORDER == <<"BASIC", "LIGHT", "MEDIUM", "DEEP", "EXTREME">>

\* DIFFICULTY_ORDER.indexOf(d)
IndexOfDifficulty(d) ==
  IF \E i \in 1..Len(DIFFICULTY_ORDER) : DIFFICULTY_ORDER[i] = d
  THEN (CHOOSE i \in 1..Len(DIFFICULTY_ORDER) : DIFFICULTY_ORDER[i] = d) - 1
  ELSE -1

\* a filter that keeps the mantras at or above the level
filterByMinDifficulty(mantras, minDifficulty) ==
  SelectSeq(mantras, LAMBDA m :
    IndexOfDifficulty(MantraOf(m).difficulty) >= IndexOfDifficulty(minDifficulty))

filterByMaxDifficulty(mantras, maxDifficulty) ==
  SelectSeq(mantras, LAMBDA m :
    IndexOfDifficulty(MantraOf(m).difficulty) <= IndexOfDifficulty(maxDifficulty))

\* the option k of an options object, undefined when it is not given
Opt(opts, k) == IF k \in DOMAIN opts THEN opts[k] ELSE Undefined

\* fromTheme(themeName, opts, seed) with the disk and the cache as they are
fromTheme(disk, cache, themeName, opts, seed) ==
  LET all == getMantrasForTheme(disk, cache, themeName)
      byLevel == IF ~Falsy(Opt(opts, "maxDifficulty"))
                 THEN filterByMaxDifficulty(all, opts.maxDifficulty) ELSE all
      bySubject == IF Opt(opts, "subject") # Undefined
                   THEN SelectSeq(byLevel, LAMBDA m :
                          MantraOf(m).subject = NullTag
                            \/ MantraOf(m).subject = opts.subject)
                   ELSE byLevel
      byDominant == IF Opt(opts, "dominant") # Undefined
                    THEN SelectSeq(bySubject, LAMBDA m :
                           MantraOf(m).dominant = NullTag
                             \/ MantraOf(m).dominant = opts.dominant)
                    ELSE bySubject
  IN IF Len(byDominant) = 0 THEN silence
     ELSE fromPool(byDominant,
                   IF Opt(opts, "order") # Undefined THEN opts.order ELSE "shuffle",
                   seed)

---------------------------------------------------------------------------
(* Combinators: what each returns (a closure, or one of its arguments) *)

UndefinedPat == [op |-> "undefined"]

\* patterns[i] of JavaScript, 0-based
PatAt(patterns, i) ==
  IF i >= 0 /\ i < Len(patterns) THEN patterns[i + 1] ELSE UndefinedPat

fast(factor, p) ==
  IF RLe(factor, R(0)) THEN silence
  ELSE IF factor = R(1) THEN p
  ELSE [op |-> "fast", factor |-> factor, pat |-> p]

\* a slow that speeds up
slowAsFast(factor, p) == fast(factor, p)

slow(factor, p) == fast(RDiv(R(1), factor), p)

early(amount, p) == [op |-> "early", amount |-> amount, pat |-> p]

late(amount, p) == early(RNeg(amount), p)

stack(patterns) ==
  IF Len(patterns) = 0 THEN silence
  ELSE IF Len(patterns) = 1 THEN patterns[1]
  ELSE [op |-> "stack", patterns |-> patterns]

cat(patterns) ==
  IF Len(patterns) = 0 THEN silence
  ELSE IF Len(patterns) = 1 THEN patterns[1]
  ELSE [op |-> "cat", patterns |-> patterns]

weave(count, patterns) ==
  IF Len(patterns) = 0 THEN silence
  ELSE IF Len(patterns) = 1 THEN patterns[1]
  ELSE IF count <= 0 THEN silence
  ELSE [op |-> "weave", patterns |-> patterns]

alternate(cyclesEach, patterns) ==
  IF Len(patterns) = 0 THEN silence
  ELSE IF Len(patterns) = 1 THEN patterns[1]
  ELSE [op |-> "alternate", cyclesEach |-> cyclesEach, patterns |-> patterns]

fmap(fn, p) == [op |-> "fmap", fn |-> fn, pat |-> p]

filter(pred, p) == [op |-> "filter", pred |-> pred, pat |-> p]

\* filterMantras(pattern, opts); opts holds the filters that are given
filterMantras(p, opts) == [op |-> "filterMantras", opts |-> opts, pat |-> p]

every(n, transform, p) ==
  IF n <= 0 THEN p
  ELSE [op |-> "every", n |-> n, transform |-> transform, pat |-> p]

degradeBy(prob, p, seed) ==
  IF RLe(prob, R(0)) THEN p
  ELSE IF RLe(R(1), prob) THEN silence
  ELSE [op |-> "degradeBy", prob |-> prob, seed |-> seed, pat |-> p]

\* the curried transforms handed to every
withFast(factor) == [t |-> "fast", factor |-> factor]
withSlow(factor) == [t |-> "slow", factor |-> factor]
withFilter(pred) == [t |-> "filter", pred |-> pred]

\* transform(pat)
ApplyTransform(transform, p) ==
  CASE transform.t = "fast" -> fast(transform.factor, p)
    [] transform.t = "slow" -> slow(transform.factor, p)
    [] transform.t = "filter" -> filter(transform.pred, p)

\* the value functions and predicates used as fn and pred:
\* (x) => x.toUpperCase() on the letters used, (x) => x !== 'b'
ApplyFn(fn, v) ==
  CASE v = "a" -> "A" [] v = "b" -> "B" [] v = "c" -> "C"
    [] v = "x" -> "X" [] v = "y" -> "Y" [] OTHER -> v

ApplyPred(pred, v) == v # "b"

---------------------------------------------------------------------------
(* The bodies of the returned closures *)

\* a weave that keeps the timing of the events it collected
WeaveEventsStacked(patternEvents, querySpan) ==
  Flatten(<<>> \o [i \in 1..Len(patternEvents) |-> patternEvents[i]])

\* weave: the interleaved, retimed events of the per-pattern results
WeaveEvents(patternEvents, querySpan) ==
  LET n == Len(patternEvents)
      lens == {Len(patternEvents[i]) : i \in 1..n}
      maxEvents == CHOOSE m \in lens : \A l \in lens : l <= m
      totalSlots == maxEvents * n
      cycleStart == RFloor(querySpan.start)
      slotDuration == Rat(1, totalSlots)
      slots == [k \in 1..totalSlots |-> k - 1]
      taken == SelectSeq(slots, LAMBDA slot :
                 (slot \div n) < Len(patternEvents[(slot % n) + 1]))
  IN IF maxEvents = 0 THEN <<>>
     ELSE <<>> \o [k \in 1..Len(taken) |->
            LET slot == taken[k]
                round == slot \div n
                patIndex == slot % n
                newStart == RAdd(R(cycleStart), RMul(R(slot), slotDuration))
                newEnd == RAdd(R(cycleStart), RMul(R(slot + 1), slotDuration))
            IN Event(patternEvents[patIndex + 1][round + 1].value,
                     Span(newStart, newEnd), Span(newStart, newEnd))]

\* a cat that hands the owner of a cycle the caller's span, not the local one
CatGlobalQuery(querySpan, patternCycleStart) == querySpan

\* cat: the local query handed to the pattern owning cycle patternCycleStart
CatLocalQuery(querySpan, patternCycleStart) ==
  Span(RMax(R(0), RSub(querySpan.start, R(patternCycleStart))),
       RMin(R(1), RSub(querySpan.end, R(patternCycleStart))))

RECURSIVE Query(_, _)

\* a fast that scales the results but not the span it asks for
QueryFastUnscaled(p, querySpan) == DivEvents(Query(p.pat, querySpan), p.factor)

QueryFast(p, querySpan) ==
  DivEvents(Query(p.pat, Span(RMul(querySpan.start, p.factor),
                              RMul(querySpan.end, p.factor))),
            p.factor)

QueryEarly(p, querySpan) ==
  ShiftEvents(Query(p.pat, Span(RAdd(querySpan.start, p.amount),
                                RAdd(querySpan.end, p.amount))),
              RNeg(p.amount))

\* a stack that queries its patterns from the last to the first
QueryStackReversed(p, querySpan) ==
  Collect(<<>> \o [i \in 1..Len(p.patterns) |->
            Query(p.patterns[Len(p.patterns) + 1 - i], querySpan)])

QueryStack(p, querySpan) ==
  Collect(<<>> \o [i \in 1..Len(p.patterns) |-> Query(p.patterns[i], querySpan)])

QueryCat(p, querySpan) ==
  LET n == Len(p.patterns)
      startMeta == RFloor(RDiv(querySpan.start, R(n)))
      endMeta == RCeil(RDiv(querySpan.end, R(n)))
  IN Collect(<<>> \o [k \in 1..((endMeta - startMeta) * n) |->
       LET meta == startMeta + ((k - 1) \div n)
           i == (k - 1) % n
           patternCycleStart == meta * n + i
           cycleSpan == Span(R(patternCycleStart), R(patternCycleStart + 1))
       IN IF ~spansOverlap(cycleSpan, querySpan) THEN Ok(<<>>)
          ELSE ShiftEvents(Query(p.patterns[i + 1],
                                 CatLocalQuery(querySpan, patternCycleStart)),
                           R(patternCycleStart))])

QueryWeave(p, querySpan) ==
  LET rs == <<>> \o [i \in 1..Len(p.patterns) |-> Query(p.patterns[i], querySpan)]
  IN IF \E i \in 1..Len(rs) : rs[i].fault THEN Thrown
     ELSE Ok(WeaveEvents([i \in 1..Len(rs) |-> rs[i].events], querySpan))

\* With cyclesEach = 0 the divisions give NaN or +-Infinity: the loop is entered
\* only from -Infinity to +Infinity (start < 0 < end), and its first round
\* calls fast(Infinity, patterns[NaN]), a call of undefined.
QueryAlternate(p, querySpan) ==
  IF p.cyclesEach = R(0)
  THEN IF RLt(querySpan.start, R(0)) /\ RLt(R(0), querySpan.end)
       THEN Thrown ELSE Ok(<<>>)
  ELSE
  LET n == Len(p.patterns)
      startPos == RFloor(RDiv(querySpan.start, p.cyclesEach))
      endPos == RCeil(RDiv(querySpan.end, p.cyclesEach))
  IN Collect(<<>> \o [k \in 1..(endPos - startPos) |->
       LET pos == startPos + k - 1
           patIndex == JsMod(pos, n)
           cycleStart == RMul(R(pos), p.cyclesEach)
           cycleEnd == RAdd(cycleStart, p.cyclesEach)
           overlapStart == RMax(querySpan.start, cycleStart)
           overlapEnd == RMin(querySpan.end, cycleEnd)
       IN IF RLe(overlapEnd, overlapStart) THEN Ok(<<>>)
          ELSE ShiftEvents(Query(slow(p.cyclesEach, PatAt(p.patterns, patIndex)),
                                 Span(RSub(overlapStart, cycleStart),
                                      RSub(overlapEnd, cycleStart))),
                           cycleStart)])

QueryFmap(p, querySpan) ==
  LET r == Query(p.pat, querySpan)
  IN IF r.fault THEN r
     ELSE Ok(<<>> \o [i \in 1..Len(r.events) |->
               [r.events[i] EXCEPT !.value = ApplyFn(p.fn, r.events[i].value)]])

QueryFilter(p, querySpan) ==
  LET r == Query(p.pat, querySpan)
  IN IF r.fault THEN r
     ELSE Ok(SelectSeq(r.events, LAMBDA e : ApplyPred(p.pred, e.value)))

\* m.subject and m.dominant of an event value m: a string has neither
TagOf(m, tag) == IF m \in DOMAIN RawEntries THEN MantraOf(m)[tag] ELSE Undefined

\* a filter that keeps only the mantras whose tag equals the filter value
QueryFilterMantrasExact(p, querySpan) ==
  IF Query(p.pat, querySpan).fault THEN Query(p.pat, querySpan)
  ELSE [fault |-> FALSE,
        events |-> SelectSeq(Query(p.pat, querySpan).events, LAMBDA e :
          /\ ("subject" \in DOMAIN p.opts /\ p.opts.subject # "")
               => (e.value \in DOMAIN RawEntries
                     /\ MantraOf(e.value).subject = p.opts.subject)
          /\ ("dominant" \in DOMAIN p.opts /\ p.opts.dominant # "")
               => (e.value \in DOMAIN RawEntries
                     /\ MantraOf(e.value).dominant = p.opts.dominant))]

\* the closure of filterMantras; reading m.subject of an undefined value throws
QueryFilterMantras(p, querySpan) ==
  LET r == Query(p.pat, querySpan)
      bySubject == ~Falsy(Opt(p.opts, "subject"))
      byDominant == ~Falsy(Opt(p.opts, "dominant"))
      kept(m) ==
        /\ bySubject => (Falsy(TagOf(m, "subject")) \/ TagOf(m, "subject") = p.opts.subject)
        /\ byDominant => (Falsy(TagOf(m, "dominant")) \/ TagOf(m, "dominant") = p.opts.dominant)
  IN IF r.fault THEN r
     ELSE IF (bySubject \/ byDominant)
             /\ \E i \in 1..Len(r.events) : r.events[i].value = Undefined
     THEN Thrown
     ELSE Ok(SelectSeq(r.events, LAMBDA e : kept(e.value)))

\* (Math.sin(eventSeed) * 10000) - Math.floor(Math.sin(eventSeed) * 10000), in
\* millionths rounded down, as IEEE double arithmetic gives it:
\* <<eventSeed, millionths>> for the event seeds the model reaches
SinHash ==
  {
    <<-1000000, 935021>>, <<-750000, 434272>>, <<-500000, 687984>>, <<-250000, 72806>>,
    <<0, 0>>, <<250000, 927193>>, <<500000, 312015>>, <<750000, 565727>>,
    <<1000000, 64978>>, <<1250000, 326943>>, <<1500000, 987142>>, <<1750000, 315113>>,
    <<2000000, 856844>>, <<2250000, 423964>>, <<2500000, 270639>>, <<2750000, 776626>>,
    <<3000000, 99418>>, <<3250000, 715347>>, <<3500000, 485570>>, <<3750000, 100481>>,
    <<4000000, 594535>>, <<4250000, 736827>>, <<4500000, 688475>>, <<4750000, 127822>>,
    <<5000000, 575313>>, <<5250000, 430923>>, <<5500000, 858808>>, <<5750000, 168078>>,
    <<6000000, 840761>>, <<6250000, 559342>>, <<6500000, 870763>>, <<6750000, 163227>>,
    <<7000000, 931635>>, <<-999993, 944844>>, <<-749993, 267347>>, <<-499993, 177629>>,
    <<-249993, 416009>>, <<7, 865987>>, <<250007, 573325>>, <<500007, 524503>>,
    <<750007, 371426>>, <<1000007, 727038>>, <<1250007, 916331>>, <<1500007, 95723>>,
    <<1750007, 553197>>, <<2000007, 863578>>, <<2250007, 435909>>, <<2500007, 714696>>,
    <<2750007, 20363>>, <<3000007, 866947>>, <<3250007, 50959>>, <<3500007, 484256>>,
    <<3750007, 180502>>, <<4000007, 598323>>, <<4250007, 283660>>, <<4500007, 696740>>,
    <<4750007, 804838>>, <<5000007, 168663>>, <<5250007, 246419>>, <<5500007, 178210>>,
    <<5750007, 517006>>, <<6000007, 970822>>, <<6250007, 896030>>, <<6500007, 319014>>,
    <<6750007, 856041>>, <<7000007, 958050>> }

DegradeRand(eventSeed) ==
  Rat((CHOOSE e \in SinHash : e[1] = eventSeed)[2], 1000000)

\* a seed taken from where the returned fragment starts
EventSeedOfPart(event, seed) ==
  RFloor(RMul(event.part.start, R(1000000))) + seed

\* Math.floor(event.whole.start * 1000000) + seed
EventSeed(event, seed) ==
  RFloor(RMul(event.whole.start, R(1000000))) + seed

QueryDegrade(p, querySpan) ==
  LET r == Query(p.pat, querySpan)
  IN IF r.fault THEN r
     ELSE Ok(SelectSeq(r.events,
               LAMBDA e : RLe(p.prob, DegradeRand(EventSeed(e, p.seed)))))

\* an every that decides once for the whole call and does not cut it in cycles
QueryEveryUncut(p, querySpan) ==
  Query(IF JsMod(RFloor(querySpan.start), p.n) = 0
        THEN ApplyTransform(p.transform, p.pat) ELSE p.pat,
        querySpan)

QueryEvery(p, querySpan) ==
  LET startCycle == RFloor(querySpan.start)
      endCycle == RCeil(querySpan.end)
  IN Collect(<<>> \o [k \in 1..(endCycle - startCycle) |->
       LET cycle == startCycle + k - 1
           queryPart == spanIntersection(Span(R(cycle), R(cycle + 1)), querySpan)
           useTransform == JsMod(cycle, p.n) = 0
           patternToUse == IF useTransform THEN ApplyTransform(p.transform, p.pat)
                           ELSE p.pat
       IN IF IsNull(queryPart) THEN Ok(<<>>)
          ELSE ShiftEvents(Query(patternToUse,
                                 Span(RSub(queryPart.start, R(cycle)),
                                      RSub(queryPart.end, R(cycle)))),
                           R(cycle))])

\* the call pat(querySpan)
Query(p, querySpan) ==
  CASE p.op = "silence" -> Ok(<<>>)
    [] p.op = "undefined" -> Thrown
    [] p.op = "pure" -> QueryPure(p.value, querySpan)
    [] p.op = "seq" -> QuerySeq(p.values, querySpan)
    [] p.op = "fromPool" -> QueryPool(p, querySpan)
    [] p.op = "fast" -> QueryFast(p, querySpan)
    [] p.op = "early" -> QueryEarly(p, querySpan)
    [] p.op = "stack" -> QueryStack(p, querySpan)
    [] p.op = "cat" -> QueryCat(p, querySpan)
    [] p.op = "weave" -> QueryWeave(p, querySpan)
    [] p.op = "alternate" -> QueryAlternate(p, querySpan)
    [] p.op = "fmap" -> QueryFmap(p, querySpan)
    [] p.op = "filter" -> QueryFilter(p, querySpan)
    [] p.op = "filterMantras" -> QueryFilterMantras(p, querySpan)
    [] p.op = "degradeBy" -> QueryDegrade(p, querySpan)
    [] p.op = "every" -> QueryEvery(p, querySpan)

---------------------------------------------------------------------------
(* compile *)

\* DEFAULT_OPTIONS.eventDurationMs
DefaultEventDurationMs == 3000

\* { ...DEFAULT_OPTIONS, ...options }.eventDurationMs
EventDurationOf(o) ==
  IF "eventDurationMs" \in DOMAIN o THEN o.eventDurationMs
  ELSE DefaultEventDurationMs

\* isMantra(value): an object with a line and a theme that are strings
isMantra(value) ==
  /\ value \in DOMAIN RawEntries
  /\ MantraOf(value).line # Undefined
  /\ MantraOf(value).theme # Undefined

\* extractEventData(value): a string passes through as the text, a Mantra
\* gives its line and its metadata
extractEventData(value) ==
  IF isMantra(value)
  THEN [text |-> MantraOf(value).line,
        metadata |-> [theme |-> MantraOf(value).theme,
                      difficulty |-> MantraOf(value).difficulty,
                      type |-> "mantra"]]
  ELSE [text |-> value]

\* a conversion that times an event by the fragment the query returned
TimelineEventOfPart(event, cycleDurationMs, eventDurationMs) ==
  LET startMs == RMul(event.part.start, R(cycleDurationMs))
      endMs == RMul(event.part.end, R(cycleDurationMs))
  IN [type |-> "mantra",
      text |-> event.value,
      startMs |-> startMs,
      durationMs |-> RMin(RSub(endMs, startMs), R(eventDurationMs))]

\* the TimelineEvent pushed for one pattern event
TimelineEventOf(event, cycleDurationMs, eventDurationMs) ==
  LET startMs == RMul(event.whole.start, R(cycleDurationMs))
      endMs == RMul(event.whole.end, R(cycleDurationMs))
      spanDurationMs == RSub(endMs, startMs)
      data == extractEventData(event.value)
      timed == [type |-> "mantra",
                text |-> data.text,
                startMs |-> startMs,
                durationMs |-> RMin(spanDurationMs, R(eventDurationMs))]
  IN IF "metadata" \in DOMAIN data
     THEN [type |-> timed.type, text |-> timed.text, startMs |-> timed.startMs,
           durationMs |-> timed.durationMs, metadata |-> data.metadata]
     ELSE timed

\* the timeline left in the order the pattern returned its events
Unsorted(timelineEvents) == timelineEvents

\* where element i of s lands: after every element that starts earlier, and
\* after the elements before it that start at the same time
RankByStart(s, i) ==
  Cardinality({j \in 1..Len(s) :
                 \/ RLt(s[j].startMs, s[i].startMs)
                 \/ (s[j].startMs = s[i].startMs /\ j <= i)})

\* timelineEvents.sort((a, b) => a.startMs - b.startMs): a stable sort
SortByStart(timelineEvents) ==
  LET rank == [i \in 1..Len(timelineEvents) |-> RankByStart(timelineEvents, i)]
  IN <<>> \o [k \in 1..Len(timelineEvents) |->
               timelineEvents[CHOOSE i \in 1..Len(timelineEvents) : rank[i] = k]]

\* Array.from(themes): the themes of the Mantra values, each once, in the
\* order in which the events first bring them
ThemesOf(evs) ==
  LET th == [i \in 1..Len(evs) |->
               IF isMantra(evs[i].value) THEN MantraOf(evs[i].value).theme ELSE ""]
      firsts == SelectSeq(<<>> \o [i \in 1..Len(evs) |-> i],
                          LAMBDA i : th[i] # "" /\ \A j \in 1..(i - 1) : th[j] # th[i])
  IN <<>> \o [k \in 1..Len(firsts) |-> th[firsts[k]]]

\* compile(pattern, options) once the pattern has returned evs
TimelineOf(evs, o) ==
  [events |-> SortByStart([i \in 1..Len(evs) |->
                 TimelineEventOf(evs[i], o.cycleDurationMs, EventDurationOf(o))]),
   totalDurationMs |-> o.cycles * o.cycleDurationMs,
   metadata |-> [themes |-> ThemesOf(evs), cycleCount |-> o.cycles,
                 cycleDurationMs |-> o.cycleDurationMs]]

---------------------------------------------------------------------------
(* The inputs *)

Sources ==
  { pure("x"),
    seq(<<"a", "b">>),
    fromPool(<<"a", "b", "c">>, "shuffle", 42) }

Factors == { R(2), R(3) }

\* the other argument handed to stack, cat, weave and alternate
Operand == slow(R(2), seq(<<"x", "y">>))

QuerySpans ==
  { Span(R(c), R(c + 1)) : c \in 0..(MaxCycles - 1) }
  \cup { Span(R(0), R(2)), Span(R(1), R(3)), Span(R(0), R(MaxCycles)) }
  \cup { Span(Rat(1, 2), R(1)), Span(Rat(1, 4), Rat(3, 4)), Span(Rat(1, 2), Rat(3, 2)),
         Span(Rat(1, 2), Rat(1, 2)), Span(Rat(-1, 2), Rat(1, 2)) }

CompileOptions ==
  { [cycles |-> c, cycleDurationMs |-> 1000] : c \in {1, 2, MaxCycles} }
  \cup { [cycles |-> MaxCycles, cycleDurationMs |-> 4000],
         [cycles |-> 2, cycleDurationMs |-> 1000, eventDurationMs |-> 400] }

NoSpan == [none |-> TRUE]
NoTimeline == [none |-> TRUE]
NoOptions == [none |-> TRUE]
NoRef == [none |-> TRUE]

IsNone(x) == "none" \in DOMAIN x

---------------------------------------------------------------------------
(* The state machine *)

NoLoad == [none |-> TRUE]

\* what a call of getMantrasForTheme or fromTheme leaves on record: the disk
\* and the cache it found, what it returned and the cache it left
LoaderCall(fn, themeName, disk, cache) ==
  [fn |-> fn, theme |-> themeName, disk |-> disk, cacheBefore |-> cache,
   fault |-> getMantrasThrows(disk, cache, themeName),
   mantras |-> getMantrasForTheme(disk, cache, themeName),
   cache |-> CacheAfterGet(disk, cache)]

NotGot == [called |-> FALSE, mantras |-> <<>>]
Got(mantras) == [called |-> TRUE, mantras |-> mantras]

NothingGot == [t \in ThemeNames |-> NotGot]

\* the disk as installed, the cache not built, the loader not called
LoaderIdle ==
  /\ files = InitialDisk
  /\ mantraCache = NoCache
  /\ loaded = NoLoad
  /\ served = NothingGot

Init ==
  /\ pat \in Sources
  /\ hist = <<>>
  /\ span = NoSpan
  /\ events = <<>>
  /\ fault = FALSE
  /\ options = NoOptions
  /\ timeline = NoTimeline
  /\ calls = 0
  /\ ref = NoRef
  /\ LoaderIdle

\* a combinator applied to the pattern in hand: a new closure, not yet called
Build(op, arg, p) ==
  /\ Len(hist) < MaxOps
  /\ calls = 0
  /\ pat' = p
  /\ hist' = Append(hist, [op |-> op, arg |-> arg, before |-> pat])
  /\ UNCHANGED <<span, events, fault, options, timeline, calls, ref>>
  /\ UNCHANGED loaderVars

Fast == \E f \in Factors : Build("fast", f, fast(f, pat))
Slow == \E f \in Factors : Build("slow", f, slow(f, pat))
Early == \E a \in {Rat(1, 4)} : Build("early", a, early(a, pat))
Late == \E a \in {Rat(1, 4)} : Build("late", a, late(a, pat))
Stack == Build("stack", Operand, stack(<<pat, Operand>>))
Cat == \E qs \in {<<Operand>>, <<pure("y"), Operand>>} : Build("cat", qs, cat(<<pat>> \o qs))
Weave == Build("weave", Operand, weave(1, <<pat, Operand>>))
Alternate == Build("alternate", Operand, alternate(R(2), <<pat, Operand>>))
Fmap == Build("fmap", "upper", fmap("upper", pat))
Filter == Build("filter", "notB", filter("notB", pat))
Every == \E n \in {2} : Build("every", n, every(n, withFast(R(2)), pat))

\* the outcome r of a call with querySpan, as the state records it
Called(querySpan, r, opts, tl) ==
  /\ span' = querySpan
  /\ events' = r.events
  /\ fault' = r.fault
  /\ options' = opts
  /\ timeline' = tl
  /\ calls' = calls + 1
  /\ ref' = IF IsNone(ref)
            THEN [pat |-> pat, span |-> querySpan, events |-> r.events, fault |-> r.fault]
            ELSE ref
  /\ UNCHANGED <<pat, hist>>
  /\ UNCHANGED loaderVars

\* pat(querySpan)
QueryCall(querySpan) ==
  \E r \in {Query(pat, querySpan)} : Called(querySpan, r, NoOptions, NoTimeline)

\* compile(pat, options)
CompileCall(o) ==
  \E r \in {Query(pat, Span(R(0), R(o.cycles)))} :
    \E tl \in {IF r.fault THEN NoTimeline ELSE TimelineOf(r.events, o)} :
      Called(Span(R(0), R(o.cycles)), r, o, tl)

QueryPattern == calls = 0 /\ \E s \in QuerySpans : QueryCall(s)

Compile == calls = 0 /\ \E o \in CompileOptions : CompileCall(o)

Next ==
  \/ Fast \/ Slow \/ Early \/ Late
  \/ Stack \/ Cat \/ Weave \/ Alternate
  \/ Fmap \/ Filter \/ Every
  \/ QueryPattern
  \/ Compile

\* a pattern is built from a source, then called once
Spec == Init /\ [][Next]_vars

---------------------------------------------------------------------------
(* Patterns called repeatedly *)

Seeded ==
  { fromPool(<<"a", "b", "c">>, "random", 42),
    fromPool(<<"a", "b", "c">>, "shuffle", 42),
    fast(R(2), fromPool(<<"a", "b", "c">>, "random", 99)),
    weave(1, <<fromPool(<<"a", "b", "c">>, "random", 7), seq(<<"x", "y">>)>>),
    every(2, withFast(R(2)), fromPool(<<"a", "b", "c">>, "shuffle", 99)),
    degradeBy(Rat(1, 2), seq(<<"a", "b", "c", "d">>), 7) }

RequerySpans ==
  { Span(R(0), R(1)), Span(R(0), R(2)), Span(Rat(1, 2), Rat(3, 2)), Span(Rat(-1, 2), R(1)) }

InitRequery ==
  /\ pat \in Seeded
  /\ hist = <<>>
  /\ span = NoSpan
  /\ events = <<>>
  /\ fault = FALSE
  /\ options = NoOptions
  /\ timeline = NoTimeline
  /\ calls = 0
  /\ ref = NoRef
  /\ LoaderIdle

\* one more call of the pattern in hand
Requery == calls < MaxCalls /\ \E s \in RequerySpans : QueryCall(s)

Recompile ==
  calls < MaxCalls /\ CompileCall([cycles |-> 2, cycleDurationMs |-> 1000])

\* another pattern is taken in hand; the calls made so far stay made
Select ==
  /\ \E p \in Seeded : p # pat /\ pat' = p
  /\ span' = NoSpan
  /\ events' = <<>>
  /\ fault' = FALSE
  /\ options' = NoOptions
  /\ timeline' = NoTimeline
  /\ UNCHANGED <<hist, calls, ref>>
  /\ UNCHANGED loaderVars

NextRequery == Requery \/ Recompile \/ Select

\* seeded patterns, called several times, in any order
SpecRequery == InitRequery /\ [][NextRequery]_vars

---------------------------------------------------------------------------
(* Session patterns *)

\* cat(slow(2, pure('intro')), fast(2, seq('a', 'b', 'c')), pure('outro'))
NestedSession ==
  cat(<<slow(R(2), pure("intro")), fast(R(2), seq(<<"a", "b", "c">>)), pure("outro")>>)

Sessions ==
  { NestedSession,
    cat(<<weave(1, <<seq(<<"a", "b">>), seq(<<"1", "2">>)>>), pure("end")>>),
    every(3, withFast(R(2)), seq(<<"a", "b", "c">>)) }

SessionSpans == { Span(R(c), R(c + 1)) : c \in 0..(MaxCycles - 1) }

SessionOptions ==
  { [cycles |-> c, cycleDurationMs |-> 1000] : c \in {MaxCycles - 1, MaxCycles, MaxCycles + 2} }

InitSession ==
  /\ pat \in Sessions
  /\ hist = <<>>
  /\ span = NoSpan
  /\ events = <<>>
  /\ fault = FALSE
  /\ options = NoOptions
  /\ timeline = NoTimeline
  /\ calls = 0
  /\ ref = NoRef
  /\ LoaderIdle

SessionQuery == calls < MaxCalls /\ \E s \in SessionSpans : QueryCall(s)

SessionCompile == calls < MaxCalls /\ \E o \in SessionOptions : CompileCall(o)

NextSession == SessionQuery \/ SessionCompile

\* a session pattern, queried cycle by cycle and compiled
SpecSession == InitSession /\ [][NextSession]_vars

---------------------------------------------------------------------------
(* Constructor calls *)

WeaveCalls ==
  { [op |-> "weave", count |-> k, patterns |-> ps] :
      k \in {1, 2},
      ps \in { <<seq(<<"a", "b">>), seq(<<"x", "y">>)>>,
               <<seq(<<"a", "b">>), seq(<<"1", "2">>)>>,
               <<seq(<<"a", "b", "c">>), pure("x")>>,
               <<pure("x"), seq(<<"a", "b">>), fromPool(<<"p", "q", "r">>, "sequential", 0)>> } }

AlternateCalls ==
  { [op |-> "alternate", cyclesEach |-> ce, patterns |-> ps] :
      ce \in {R(1), R(2), Rat(1, 2)},
      ps \in { <<pure("a"), pure("b")>>,
               <<seq(<<"a", "b">>), pure("x"), seq(<<"c", "d", "e">>)>>,
               <<seq(<<"a", "b">>)>> } }

EveryCalls ==
  { [op |-> "every", n |-> n, transform |-> t, pat |-> p] :
      n \in {1, 2, 3},
      t \in {withFast(R(2)), withSlow(R(2)), withFilter("notB")},
      p \in {pure("x"), seq(<<"a", "b", "c">>)} }

DegradeCalls ==
  { [op |-> "degradeBy", prob |-> pr, pat |-> p, seed |-> sd] :
      pr \in {Rat(-1, 2), R(0), Rat(1, 4), Rat(1, 2), R(1), Rat(3, 2)},
      p \in { pure("x"), seq(<<"a", "b">>),
              stack(<<seq(<<"a", "b", "c", "d">>), seq(<<"w", "x", "y", "z">>)>>) },
      sd \in {0, 7} }

PoolCalls ==
  { [op |-> "fromPool", pool |-> pl, order |-> "sequential", seed |-> 0] :
      pl \in { <<"p">>, <<"p", "q", "r">>, <<"p", "q", "p", "s">> } }
  \cup
  { [op |-> "fromPool", pool |-> pl, order |-> "shuffle", seed |-> sd] :
      pl \in { <<"p", "q", "r">>, <<"p", "p", "q">>, <<"p", "q", "r", "s", "t">> },
      sd \in {-3, 0, 1, 42, 99, 2026} }
  \cup
  { [op |-> "fromPool", pool |-> <<"p", "q", "r">>, order |-> "random", seed |-> sd] :
      sd \in {0, 7} }

PureCalls == { [op |-> "pure", value |-> v] : v \in {"x", "y"} }

StackCalls ==
  { [op |-> "stack", patterns |-> ps] :
      ps \in { <<>>,
               <<seq(<<"a", "b">>)>>,
               <<pure("x"), pure("y")>>,
               <<seq(<<"a", "b">>), pure("x")>>,
               <<pure("x"), seq(<<"a", "b", "c">>), fast(R(2), seq(<<"a", "b">>))>>,
               <<stack(<<pure("x"), pure("y")>>), silence, slow(R(2), seq(<<"a", "b">>))>> } }

SeqCalls ==
  { [op |-> "seq", values |-> vs] : vs \in { <<>>, <<"a">>, <<"a", "b", "c">> } }

CatCalls ==
  { [op |-> "cat", patterns |-> ps] :
      ps \in { <<>>, <<pure("a"), seq(<<"x", "y">>)>> } }

FastCalls ==
  { [op |-> "fast", factor |-> f, pat |-> p] :
      f \in {R(-1), Rat(-1, 2), R(0), Rat(1, 2), R(2)},
      p \in {pure("x"), seq(<<"a", "b">>)} }

SlowCalls ==
  { [op |-> "slow", factor |-> f, pat |-> p] :
      f \in {R(-2), Rat(-1, 2), Rat(1, 2), R(2)},
      p \in {pure("x"), seq(<<"a", "b">>)} }

ThemeOptions ==
  { <<>>, [order |-> "sequential"], [order |-> "random"],
    [maxDifficulty |-> "LIGHT", order |-> "sequential"] }
  \cup { [maxDifficulty |-> DIFFICULTY_ORDER[i]] : i \in 1..Len(DIFFICULTY_ORDER) }

ThemeCalls ==
  { [op |-> "fromTheme", themeName |-> t, opts |-> o, seed |-> sd] :
      t \in {"Nowhere", "Focus", "Calm", "Abyss"}, o \in ThemeOptions, sd \in {0, 42} }

FilterMantrasCalls ==
  { [op |-> "filterMantras", pattern |-> p, opts |-> o] :
      p \in { fromPool(<<"f1", "f2", "f3", "f4", "f5">>, "sequential", 0),
              stack(<<fromPool(<<"f3", "f4">>, "sequential", 0),
                      fromPool(<<"c1", "f2", "f5">>, "shuffle", 42)>>) },
      o \in { <<>>, [subject |-> "Bambi"], [subject |-> "Doll"], [dominant |-> "Master"],
              [subject |-> "Doll", dominant |-> "Master"],
              [subject |-> "Bambi", dominant |-> "Mistress"],
              [subject |-> ""], [dominant |-> "", subject |-> "Bambi"] } }

\* calls with an empty list or a non-positive number
DegenerateCalls ==
  { [op |-> "fromPool", pool |-> <<>>, order |-> o, seed |-> 0] :
      o \in {"sequential", "shuffle"} }
  \cup
  { [op |-> "weave", count |-> k, patterns |-> ps] :
      k \in {-1, 0},
      ps \in { <<>>, <<pure("x")>>, <<seq(<<"a", "b">>), pure("x")>>,
               <<pure("x"), pure("y"), seq(<<"a", "b">>)>> } }
  \cup
  { [op |-> "weave", count |-> 1, patterns |-> <<>>] }
  \cup
  { [op |-> "alternate", cyclesEach |-> ce, patterns |-> ps] :
      ce \in {R(-1), Rat(-1, 2), R(0)},
      ps \in { <<>>, <<pure("x")>>, <<pure("a"), pure("b")>>,
               <<seq(<<"a", "b">>), pure("x"), pure("y")>> } }
  \cup
  { [op |-> "alternate", cyclesEach |-> R(1), patterns |-> <<>>] }
  \cup
  { [op |-> "every", n |-> n, transform |-> withFast(R(2)), pat |-> p] :
      n \in {-1, 0}, p \in {pure("x"), seq(<<"a", "b">>)} }

\* the calls of the sources and combinators, with their arguments
Constructions ==
  WeaveCalls \cup AlternateCalls \cup EveryCalls \cup DegradeCalls \cup PoolCalls
    \cup PureCalls \cup StackCalls \cup SeqCalls \cup CatCalls \cup FastCalls
    \cup SlowCalls \cup ThemeCalls \cup FilterMantrasCalls \cup DegenerateCalls

\* the pattern a call returns
Construct(c) ==
  CASE c.op = "weave" -> weave(c.count, c.patterns)
    [] c.op = "alternate" -> alternate(c.cyclesEach, c.patterns)
    [] c.op = "every" -> every(c.n, c.transform, c.pat)
    [] c.op = "degradeBy" -> degradeBy(c.prob, c.pat, c.seed)
    [] c.op = "fromPool" -> fromPool(c.pool, c.order, c.seed)
    [] c.op = "pure" -> pure(c.value)
    [] c.op = "stack" -> stack(c.patterns)
    [] c.op = "seq" -> seq(c.values)
    [] c.op = "cat" -> cat(c.patterns)
    [] c.op = "fast" -> fast(c.factor, c.pat)
    [] c.op = "slow" -> slow(c.factor, c.pat)
    [] c.op = "fromTheme" -> fromTheme(InitialDisk, NoCache, c.themeName, c.opts, c.seed)
    [] c.op = "filterMantras" -> filterMantras(c.pattern, c.opts)

ConstructSpans ==
  { Span(R(c), R(c + 1)) : c \in 0..(MaxCycles - 1) }
  \cup { Span(R(0), R(n)) : n \in 2..MaxCycles }
  \cup { Span(Rat(1, 4), Rat(3, 4)), Span(Rat(1, 2), Rat(3, 2)),
         Span(Rat(-1, 2), Rat(1, 2)), Span(R(-1), R(0)) }

ConstructOptions ==
  { [cycles |-> c, cycleDurationMs |-> 1000] : c \in {1, MaxCycles} }
  \cup { [cycles |-> 2, cycleDurationMs |-> 1000, subject |-> "Bambi"],
         [cycles |-> 2, cycleDurationMs |-> 1000, dominant |-> "Master"] }

\* fromTheme builds the cache on its way; the other calls leave the loader alone
InitConstruct ==
  /\ \E c \in Constructions :
       /\ hist = <<c>>
       /\ pat = Construct(c)
       /\ mantraCache = IF c.op = "fromTheme" THEN CacheAfterGet(InitialDisk, NoCache)
                        ELSE NoCache
       /\ loaded = IF c.op = "fromTheme"
                   THEN LoaderCall("fromTheme", c.themeName, InitialDisk, NoCache)
                   ELSE NoLoad
       /\ served = IF c.op = "fromTheme"
                THEN [NothingGot EXCEPT ![c.themeName] =
                        Got(getMantrasForTheme(InitialDisk, NoCache, c.themeName))]
                ELSE NothingGot
  /\ files = InitialDisk
  /\ span = NoSpan
  /\ events = <<>>
  /\ fault = FALSE
  /\ options = NoOptions
  /\ timeline = NoTimeline
  /\ calls = 0
  /\ ref = NoRef

ConstructedQuery == calls = 0 /\ \E s \in ConstructSpans : QueryCall(s)

ConstructedCompile == calls = 0 /\ \E o \in ConstructOptions : CompileCall(o)

NextConstruct == ConstructedQuery \/ ConstructedCompile

\* one call of a source or combinator, then one call of what it returned
SpecConstruct == InitConstruct /\ [][NextConstruct]_vars

---------------------------------------------------------------------------
(* The loader called while the files change *)

\* what the files of the themes may be replaced by
Rewrites ==
  { <<"Focus", BadFile>>,
    <<"Focus", JsonFile(<<"f1", "f6">>)>>,
    <<"Focus", JsonFile(<<"f1", "f2">>)>>,
    <<"Calm", BadFile>>,
    <<"Ghost", NoFile>>,
    <<"Empty", JsonFile(<<"e1">>)>> }

InitLoader ==
  /\ pat = silence
  /\ hist = <<>>
  /\ span = NoSpan
  /\ events = <<>>
  /\ fault = FALSE
  /\ options = NoOptions
  /\ timeline = NoTimeline
  /\ calls = 0
  /\ ref = NoRef
  /\ LoaderIdle

\* the loader's part of a step; the pattern side stays as it is
LoaderStep ==
  /\ calls < MaxCalls
  /\ calls' = calls + 1
  /\ UNCHANGED <<hist, span, events, fault, options, timeline, ref>>

\* the environment replaces a theme's file
WriteFile ==
  /\ LoaderStep
  /\ \E w \in Rewrites : files' = [files EXCEPT ![w[1]] = w[2]]
  /\ UNCHANGED <<pat, mantraCache, loaded, served>>

\* loadMantrasForTheme(t)
LoadMantras ==
  /\ LoaderStep
  /\ \E t \in ThemeNames :
       loaded' = [fn |-> "loadMantrasForTheme", theme |-> t, disk |-> files,
                  cacheBefore |-> mantraCache,
                  fault |-> loadMantrasForTheme(files, t).fault,
                  mantras |-> loadMantrasForTheme(files, t).mantras,
                  cache |-> mantraCache]
  /\ UNCHANGED <<pat, files, mantraCache, served>>

\* getMantrasForTheme(t)
GetMantras ==
  /\ LoaderStep
  /\ \E t \in ThemeNames :
       /\ loaded' = LoaderCall("getMantrasForTheme", t, files, mantraCache)
       /\ served' = [served EXCEPT ![t] = Got(getMantrasForTheme(files, mantraCache, t))]
  /\ mantraCache' = CacheAfterGet(files, mantraCache)
  /\ UNCHANGED <<pat, files>>

\* clearCache()
ClearCache ==
  /\ LoaderStep
  /\ mantraCache' = NoCache
  /\ served' = NothingGot
  /\ UNCHANGED <<pat, files, loaded>>

\* pat = fromTheme(t, {}, 0)
ThemePattern ==
  /\ LoaderStep
  /\ \E t \in ThemeNames :
       /\ loaded' = LoaderCall("fromTheme", t, files, mantraCache)
       /\ served' = [served EXCEPT ![t] = Got(getMantrasForTheme(files, mantraCache, t))]
       /\ pat' = fromTheme(files, mantraCache, t, <<>>, 0)
  /\ mantraCache' = CacheAfterGet(files, mantraCache)
  /\ UNCHANGED files

NextLoader == WriteFile \/ LoadMantras \/ GetMantras \/ ClearCache \/ ThemePattern

\* the loader and the files, up to MaxCalls steps
SpecLoader == InitLoader /\ [][NextLoader]_vars

---------------------------------------------------------------------------
(* Claims *)

Contains(outer, inner) == RLe(outer.start, inner.start) /\ RLe(inner.end, outer.end)

\* C2 (span containment): whole.start <= part.start <= part.end <= whole.end
\* for every event returned.
SpanContainment ==
  \A i \in 1..Len(events) :
    /\ RLe(events[i].whole.start, events[i].part.start)
    /\ RLe(events[i].part.start, events[i].part.end)
    /\ RLe(events[i].part.end, events[i].whole.end)

\* a call cut an event of a pattern built with two combinators
SpanContainmentWitness ==
  /\ Len(hist) = 2
  /\ hist[2].op = "cat"
  /\ \E i \in 1..Len(events) :
       /\ RLt(events[i].whole.start, events[i].part.start)
       /\ RLt(events[i].part.end, events[i].whole.end)

\* C3 (part = whole cut by the query): every returned event's part is the
\* intersection of its whole with the query span, and so lies inside the
\* query span, weave included.
PartInsideQuery ==
  ~IsNone(span) =>
    \A i \in 1..Len(events) :
      /\ Contains(span, events[i].part)
      /\ events[i].part = Span(RMax(events[i].whole.start, span.start),
                               RMin(events[i].whole.end, span.end))

\* C4 (part = whole exactly when the query contains the whole): an event has
\* part = whole if and only if its whole lies inside the query span, in
\* composed patterns too.
WholeIffContained ==
  ~IsNone(span) =>
    \A i \in 1..Len(events) :
      (events[i].part = events[i].whole) <=> Contains(span, events[i].whole)

TimelineEvent(text, startMs, durationMs) ==
  [type |-> "mantra", text |-> text, startMs |-> R(startMs), durationMs |-> R(durationMs)]

\* C5 (compile sorts, stably): the timeline is in non-decreasing startMs
\* order, and the events that start at one time are in the order in which the
\* pattern returned them.
CompileSorted ==
  ~IsNone(timeline) =>
    LET out == timeline.events
        conv == [i \in 1..Len(events) |->
                   TimelineEventOf(events[i], options.cycleDurationMs,
                                   EventDurationOf(options))]
    IN /\ \A k \in 1..(Len(out) - 1) : RLe(out[k].startMs, out[k + 1].startMs)
       /\ \A i \in 1..Len(conv) :
            SelectSeq(out, LAMBDA e : e.startMs = conv[i].startMs)
              = SelectSeq(conv, LAMBDA e : e.startMs = conv[i].startMs)

\* the pattern returned its events out of order, and two different events
\* that start at the same time
CompileSortedWitness ==
  /\ ~IsNone(timeline)
  /\ \E i \in 1..(Len(events) - 1) :
       RLt(events[i + 1].whole.start, events[i].whole.start)
  /\ \E k \in 1..(Len(timeline.events) - 1) :
       /\ timeline.events[k].startMs = timeline.events[k + 1].startMs
       /\ timeline.events[k].text # timeline.events[k + 1].text

\* the timeline event compile is said to emit for one pattern event
Emitted(e, o) ==
  [type |-> "mantra",
   text |-> e.value,
   startMs |-> RMul(e.whole.start, R(o.cycleDurationMs)),
   durationMs |-> RMin(RMul(RSub(e.whole.end, e.whole.start), R(o.cycleDurationMs)),
                       R(IF "eventDurationMs" \in DOMAIN o THEN o.eventDurationMs
                         ELSE 3000))]

\* C6 (compile timing): compile queries [0, cycles) and emits one timeline
\* event per pattern event, starting at whole.start * cycleDurationMs and
\* lasting min(whole duration in ms, eventDurationMs), eventDurationMs being
\* 3000 when absent; totalDurationMs = cycles * cycleDurationMs; seq("a","b")
\* with 1 cycle of 1000 ms gives events at 0 and 500 and a total of 1000.
CompileTiming ==
  ~IsNone(timeline) =>
    /\ calls = 1
    /\ span = Span(R(0), R(options.cycles))
    /\ Len(timeline.events) = Len(events)
    /\ \A i \in 1..Len(events) :
         LET te == Emitted(events[i], options)
         IN Cardinality({k \in 1..Len(timeline.events) : timeline.events[k] = te})
              = Cardinality({j \in 1..Len(events) : Emitted(events[j], options) = te})
    /\ timeline.totalDurationMs = options.cycles * options.cycleDurationMs
    /\ (pat = seq(<<"a", "b">>) /\ options = [cycles |-> 1, cycleDurationMs |-> 1000])
         => /\ timeline.events = <<TimelineEvent("a", 0, 500), TimelineEvent("b", 500, 500)>>
            /\ timeline.totalDurationMs = 1000

\* no eventDurationMs was given, an event longer than 3000 ms was cut to 3000,
\* and the query returned a fragment that starts later than its whole
CompileTimingWitness ==
  /\ ~IsNone(timeline)
  /\ "eventDurationMs" \notin DOMAIN options
  /\ \E i \in 1..Len(events) :
       /\ RLt(events[i].whole.start, events[i].part.start)
       /\ RLt(R(3000), RMul(spanDuration(events[i].whole), R(options.cycleDurationMs)))
  /\ \E k \in 1..Len(timeline.events) : timeline.events[k].durationMs = R(3000)

IsInt(a) == a[2] = 1

\* C7 (cat ownership): cat(p1..pn), n >= 2, called with whole cycles
\* [s, e), 0 <= s < e, returns, cycle after cycle in ascending order, the
\* events of p_(c mod n) called with [0, 1), wholes and parts shifted by c.
CatOwnership ==
  ( /\ Len(hist) > 0
    /\ hist[Len(hist)].op = "cat"
    /\ ~IsNone(span)
    /\ IsInt(span.start) /\ IsInt(span.end)
    /\ 0 <= span.start[1] /\ span.start[1] < span.end[1] )
  => LET ps == <<hist[Len(hist)].before>> \o hist[Len(hist)].arg
         n == Len(ps)
         s == span.start[1]
         own(c) == Query(ps[(c % n) + 1], Span(R(0), R(1)))
         exp(c) == [i \in 1..Len(own(c).events) |->
                      Event(own(c).events[i].value,
                            Span(RAdd(own(c).events[i].whole.start, R(c)),
                                 RAdd(own(c).events[i].whole.end, R(c))),
                            Span(RAdd(own(c).events[i].part.start, R(c)),
                                 RAdd(own(c).events[i].part.end, R(c))))]
     IN /\ n >= 2
        /\ fault = (\E c \in s..(span.end[1] - 1) : own(c).fault)
        /\ ~fault => events = Flatten([k \in 1..(span.end[1] - s) |-> exp(s + k - 1)])

\* a cat of three patterns was called over MaxCycles cycles, so that the
\* first pattern came round again
CatOwnershipWitness ==
  /\ Len(hist) = 2
  /\ hist[2].op = "cat"
  /\ Len(hist[2].arg) = 2
  /\ span = Span(R(0), R(MaxCycles))
  /\ calls = 1
  /\ Len(events) >= MaxCycles

Texts(tes) == [k \in 1..Len(tes) |-> tes[k].text]

\* C8 (nested session): the nested session pattern compiled at 1000 ms per
\* cycle over 4 cycles or more starts with two "intro" events one second
\* apart, then "a","b","c","a","b","c", then one "outro"; totalDurationMs =
\* cycles * 1000.
NestedSessionTimeline ==
  ( /\ pat = NestedSession
    /\ ~IsNone(timeline)
    /\ options.cycleDurationMs = 1000
    /\ options.cycles >= 4 )
  => LET out == timeline.events
     IN /\ Len(out) >= 9
        /\ Texts(SubSeq(out, 1, 9))
             = <<"intro", "intro", "a", "b", "c", "a", "b", "c", "outro">>
        /\ out[2].startMs = RAdd(out[1].startMs, R(1000))
        /\ timeline.totalDurationMs = options.cycles * 1000

\* C9 (fast/slow inverse): slow(f, fast(f, p)) returns, for every span, the
\* events p returns: same values, wholes, parts and order.
SlowFastInverse ==
  ( /\ Len(hist) >= 2
    /\ hist[Len(hist)].op = "slow"
    /\ hist[Len(hist) - 1].op = "fast"
    /\ hist[Len(hist)].arg = hist[Len(hist) - 1].arg
    /\ ~IsNone(span) )
  => [fault |-> fault, events |-> events] = Query(hist[Len(hist) - 1].before, span)

\* slow(3, fast(3, p)) was called with a span that cuts events
SlowFastInverseWitness ==
  /\ Len(hist) = 2
  /\ hist[2].op = "slow" /\ hist[1].op = "fast"
  /\ hist[2].arg = R(3) /\ hist[1].arg = R(3)
  /\ span = Span(Rat(1, 2), Rat(3, 2))
  /\ \E i \in 1..Len(events) : events[i].part # events[i].whole

Values(evs) == [i \in 1..Len(evs) |-> evs[i].value]

\* C10 (fast semantics): fast(f, p) called with [s, e) returns the events of
\* p called with [f*s, f*e), in the same order, every coordinate divided by
\* f; slow(f, p) is fast(1/f, p); fast(2, pure(x)) over [0, 1) is two events
\* with wholes [0, 1/2) and [1/2, 1); slow(2, seq(a, b)) gives only a in
\* cycle 0 and only b in cycle 1.
FastSemantics ==
  /\ (Len(hist) > 0 /\ hist[Len(hist)].op = "fast" /\ ~IsNone(span)) =>
       LET f == hist[Len(hist)].arg
           r == Query(hist[Len(hist)].before,
                      Span(RMul(span.start, f), RMul(span.end, f)))
       IN /\ fault = r.fault
          /\ Len(events) = Len(r.events)
          /\ \A i \in 1..Len(events) :
               /\ events[i].value = r.events[i].value
               /\ events[i].whole = Span(RDiv(r.events[i].whole.start, f),
                                         RDiv(r.events[i].whole.end, f))
               /\ events[i].part = Span(RDiv(r.events[i].part.start, f),
                                        RDiv(r.events[i].part.end, f))
  /\ (Len(hist) > 0 /\ hist[Len(hist)].op = "slow") =>
       LET f == hist[Len(hist)].arg
           p == hist[Len(hist)].before
       IN /\ pat = fast(RDiv(R(1), f), p)
          /\ ~IsNone(span) =>
               [fault |-> fault, events |-> events] = Query(fast(RDiv(R(1), f), p), span)
  /\ (pat = fast(R(2), pure("x")) /\ span = Span(R(0), R(1))) =>
       events = <<Event("x", Span(R(0), Rat(1, 2)), Span(R(0), Rat(1, 2))),
                  Event("x", Span(Rat(1, 2), R(1)), Span(Rat(1, 2), R(1)))>>
  /\ (pat = slow(R(2), seq(<<"a", "b">>)) /\ span = Span(R(0), R(1))) =>
       Values(events) = <<"a">>
  /\ (pat = slow(R(2), seq(<<"a", "b">>)) /\ span = Span(R(1), R(2))) =>
       Values(events) = <<"b">>

\* fast(3, slow(2, seq(a, b))) was called with a span that cuts events
FastSemanticsWitness ==
  /\ Len(hist) = 2
  /\ hist[1].op = "slow" /\ hist[1].arg = R(2) /\ hist[1].before = seq(<<"a", "b">>)
  /\ hist[2].op = "fast" /\ hist[2].arg = R(3)
  /\ span = Span(Rat(1, 4), Rat(3, 4))
  /\ \E i \in 1..Len(events) : events[i].part # events[i].whole

IsCycle(s) == IsInt(s.start) /\ s.end = RAdd(s.start, R(1))

WeaveEachCycle ==
  ( /\ pat = weave(1, <<seq(<<"a", "b">>), seq(<<"1", "2">>)>>)
    /\ ~IsNone(span)
    /\ span.start = R(0) /\ IsInt(span.end) /\ span.end[1] >= 2 )
  => \A k \in 0..(span.end[1] - 1) :
       LET inCycle == SelectSeq(events,
                        LAMBDA e : Contains(Span(R(k), R(k + 1)), e.whole))
       IN /\ Values(inCycle) = <<"a", "1", "b", "2">>
          /\ inCycle = Query(pat, Span(R(k), R(k + 1))).events

\* C13 (alternate equivalence): for cyclesEach > 0, n >= 1 patterns and a span
\* in non-negative time, alternate(cyclesEach, p1..pn) returns the events of
\* slow(cyclesEach, cat(p1..pn)); alternate(2, pure(a), pure(b)) plays a in
\* cycles 0-1, b in cycles 2-3.
AlternateIsSlowCat ==
  ( /\ hist[1].op = "alternate"
    /\ RLt(R(0), hist[1].cyclesEach)
    /\ Len(hist[1].patterns) >= 1
    /\ ~IsNone(span)
    /\ RLe(R(0), span.start) )
  => /\ [fault |-> fault, events |-> events]
          = Query(slow(hist[1].cyclesEach, cat(hist[1].patterns)), span)
     /\ ( /\ hist[1].cyclesEach = R(2)
          /\ hist[1].patterns = <<pure("a"), pure("b")>>
          /\ IsCycle(span) )
        => Values(events) = <<IF span.start[1] % 4 < 2 THEN "a" ELSE "b">>

\* C14 (every): every(n, transform, p), n >= 1, returns for each cycle c the
\* span touches the events of transform(p) when c mod n = 0 and of p
\* otherwise, taken over the part of the span in the cycle shifted by -c and
\* shifted back by +c, cycle after cycle; every(2, fast 2, pure(x)) has 2
\* events in cycles 0 and 2 and 1 event in cycle 1.
EveryPerCycle ==
  ( /\ hist[1].op = "every"
    /\ hist[1].n >= 1
    /\ ~IsNone(span) )
  => LET first == RFloor(span.start)
         last == RCeil(span.end) - 1
         played(c) == IF c % hist[1].n = 0
                      THEN ApplyTransform(hist[1].transform, hist[1].pat)
                      ELSE hist[1].pat
         local(c) == Span(RSub(RMax(span.start, R(c)), R(c)),
                          RSub(RMin(span.end, R(c + 1)), R(c)))
         got(c) == Query(played(c), local(c)).events
         back(c) == [i \in 1..Len(got(c)) |->
                       Event(got(c)[i].value,
                             Span(RAdd(got(c)[i].whole.start, R(c)),
                                  RAdd(got(c)[i].whole.end, R(c))),
                             Span(RAdd(got(c)[i].part.start, R(c)),
                                  RAdd(got(c)[i].part.end, R(c))))]
     IN /\ ~fault
        /\ events = Flatten([k \in 1..(last - first + 1) |-> back(first + k - 1)])
        /\ ( /\ pat = every(2, withFast(R(2)), pure("x"))
             /\ IsCycle(span) )
           => Len(events) = IF span.start[1] % 2 = 0 THEN 2 ELSE 1

\* every(2, fast 2, seq(a,b,c)) was called with [1/2, 3/2): the end of a
\* transformed cycle, then the start of a plain one
EveryPerCycleWitness ==
  /\ hist[1] = [op |-> "every", n |-> 2, transform |-> withFast(R(2)),
                pat |-> seq(<<"a", "b", "c">>)]
  /\ span = Span(Rat(1, 2), Rat(3, 2))
  /\ Len(events) = 5

\* the event e of the inner pattern is among the events evs
KeptIn(e, evs) ==
  \E k \in 1..Len(evs) : evs[k].value = e.value /\ evs[k].whole = e.whole

\* C15 (degradeBy decision): degradeBy(prob, p, seed) keeps every event of p
\* when prob <= 0 (it is p) and none when prob >= 1 (it is silence); otherwise
\* it returns events of p unchanged, and whether an event is kept depends only
\* on its whole.start (with seed and prob): events that start together are
\* kept or dropped together, and an event is kept or dropped alike in every
\* span that returns it.
DegradeDecision ==
  ( /\ hist[1].op = "degradeBy"
    /\ ~IsNone(span) )
  => LET prob == hist[1].prob
         base == Query(hist[1].pat, span).events
     IN /\ ~fault
        /\ RLe(prob, R(0)) => (pat = hist[1].pat /\ events = base)
        /\ RLe(R(1), prob) => (pat = silence /\ events = <<>>)
        /\ events = SelectSeq(base, LAMBDA e : KeptIn(e, events))
        /\ \A i, j \in 1..Len(base) :
             base[i].whole.start = base[j].whole.start
               => (KeptIn(base[i], events) <=> KeptIn(base[j], events))
        /\ \A s \in ConstructSpans :
             LET base2 == Query(hist[1].pat, s).events
                 events2 == Query(pat, s).events
             IN \A i \in 1..Len(base) : \A j \in 1..Len(base2) :
                  (base[i].value = base2[j].value /\ base[i].whole = base2[j].whole)
                    => (KeptIn(base[i], events) <=> KeptIn(base2[j], events2))

\* degradeBy(1/4, seq(a,b), 0) was called with [1/4, 3/4), which cuts both
\* events: a, kept or dropped by its whole.start 0, is dropped and b is kept
DegradeDecisionWitness ==
  /\ hist[1] = [op |-> "degradeBy", prob |-> Rat(1, 4), pat |-> seq(<<"a", "b">>),
                seed |-> 0]
  /\ span = Span(Rat(1, 4), Rat(3, 4))
  /\ Values(events) = <<"b">>

\* C16 (fromPool slots): fromPool of a pool of n >= 1 items in order
\* 'sequential' returns, for a span in non-negative time, exactly the events
\* of the global slots i that overlap the span, in ascending order of i, the
\* event of slot i having whole [i/n, (i+1)/n), value pool[i mod n] and the
\* part of the whole inside the span.
PoolSlots ==
  ( /\ hist[1].op = "fromPool"
    /\ hist[1].order = "sequential"
    /\ Len(hist[1].pool) >= 1
    /\ ~IsNone(span)
    /\ RLe(R(0), span.start) )
  => LET pool == hist[1].pool
         n == Len(pool)
         slot(i) == Span(Rat(i, n), Rat(i + 1, n))
         over == {i \in 0..((MaxCycles + 2) * n) : spansOverlap(slot(i), span)}
         first == CHOOSE i \in over : \A j \in over : i <= j
     IN /\ ~fault
        /\ Len(events) = Cardinality(over)
        /\ \A k \in 1..Len(events) :
             /\ (first + k - 1) \in over
             /\ events[k] = Event(pool[((first + k - 1) % n) + 1],
                                  slot(first + k - 1),
                                  Span(RMax(slot(first + k - 1).start, span.start),
                                       RMin(slot(first + k - 1).end, span.end)))

\* a pool of three was called with [1/2, 3/2): the slots 1..4, the first and
\* the last cut, the pool position carried over the cycle boundary
PoolSlotsWitness ==
  /\ hist[1].op = "fromPool"
  /\ hist[1].order = "sequential"
  /\ hist[1].pool = <<"p", "q", "r">>
  /\ span = Span(Rat(1, 2), Rat(3, 2))
  /\ Values(events) = <<"q", "r", "p", "q">>

\* the sequences a and b hold the same items, each as many times
SameItems(a, b) ==
  /\ Len(a) = Len(b)
  /\ \A i \in 1..Len(a) :
       Cardinality({k \in 1..Len(a) : a[k] = a[i]})
         = Cardinality({k \in 1..Len(b) : b[k] = a[i]})

\* the loop of shuffleWithSeed when rand() * (i + 1) floors to js[i]
RECURSIVE ShuffleWith(_, _, _)
ShuffleWith(result, i, js) ==
  IF i <= 0 THEN result ELSE ShuffleWith(Swap(result, i, js[i]), i - 1, js)

\* every outcome of Math.floor(rand() * (i + 1)) for i = 1..n-1
ShuffleChoices(n) == {js \in [1..(n - 1) -> 0..(n - 1)] : \A i \in 1..(n - 1) : js[i] <= i}

\* C17 (fromPool shuffle): in order 'shuffle' the values of a cycle [k, k+1),
\* k >= 0, are a permutation of the pool, the same in every cycle; a second
\* pattern built from the same pool and seed returns the same events; and the
\* shuffle gives a permutation whatever the generator produces.
PoolShuffle ==
  ( /\ hist[1].op = "fromPool"
    /\ hist[1].order = "shuffle"
    /\ ~IsNone(span)
    /\ IsCycle(span) /\ span.start[1] >= 0 )
  => /\ ~fault
     /\ SameItems(Values(events), hist[1].pool)
     /\ Values(events) = Values(Query(pat, Span(R(0), R(1))).events)
     /\ events = Query(fromPool(hist[1].pool, "shuffle", hist[1].seed), span).events
     /\ \A js \in ShuffleChoices(Len(hist[1].pool)) :
          SameItems(ShuffleWith(hist[1].pool, Len(hist[1].pool) - 1, js), hist[1].pool)

\* a pool of five shuffled with seed 99 was called with the cycle [2, 3) and
\* returned its items in another order than the pool's
PoolShuffleWitness ==
  /\ hist[1] = [op |-> "fromPool", pool |-> <<"p", "q", "r", "s", "t">>,
                order |-> "shuffle", seed |-> 99]
  /\ span = Span(R(2), R(3))
  /\ Len(events) = 5
  /\ Values(events) # hist[1].pool

\* C18 (pure coverage): pure(x) called with [0, n), n >= 1, returns exactly n
\* events, the k-th (k = 0..n-1) with value x and whole = part = [k, k+1);
\* called with any span it returns, for every cycle k the span overlaps and in
\* ascending order, the event with whole [k, k+1) and the part of it inside
\* the span.
PureCoverage ==
  (hist[1].op = "pure" /\ ~IsNone(span))
  => /\ ~fault
     /\ (span.start = R(0) /\ IsInt(span.end) /\ span.end[1] >= 1)
          => /\ Len(events) = span.end[1]
             /\ \A k \in 0..(span.end[1] - 1) :
                  events[k + 1] = Event(hist[1].value, Span(R(k), R(k + 1)),
                                        Span(R(k), R(k + 1)))
     /\ LET over == {k \in (-2)..(MaxCycles + 2) :
                       spansOverlap(Span(R(k), R(k + 1)), span)}
            first == CHOOSE k \in over : \A j \in over : k <= j
        IN /\ Len(events) = Cardinality(over)
           /\ \A i \in 1..Len(events) :
                /\ (first + i - 1) \in over
                /\ events[i] = Event(hist[1].value,
                                     Span(R(first + i - 1), R(first + i)),
                                     Span(RMax(R(first + i - 1), span.start),
                                          RMin(R(first + i), span.end)))

\* pure was called with [1/2, 3/2), which cuts the cycles 0 and 1
PureCoverageWitness ==
  /\ hist[1].op = "pure"
  /\ span = Span(Rat(1, 2), Rat(3, 2))
  /\ Len(events) = 2
  /\ events[1].whole = Span(R(0), R(1)) /\ events[1].part = Span(Rat(1, 2), R(1))
  /\ events[2].whole = Span(R(1), R(2)) /\ events[2].part = Span(R(1), Rat(3, 2))

\* C19 (stack): stack(p1..pn) called with a span returns the concatenation of
\* p1(span), ..., pn(span) with values, wholes and parts unchanged, so the
\* number of its events is the sum of the numbers of theirs.
StackConcatenates ==
  (hist[1].op = "stack" /\ ~IsNone(span))
  => LET ps == hist[1].patterns
         each == <<>> \o [i \in 1..Len(ps) |-> Query(ps[i], span)]
         lens == [i \in 0..Len(ps) |->
                    Cardinality({<<j, k>> \in (1..Len(ps)) \X (1..Len(events)) :
                                   j <= i /\ k <= Len(each[j].events)})]
     IN /\ ~fault
        /\ \A i \in 1..Len(ps) : ~each[i].fault
        /\ Len(events) = lens[Len(ps)]
        /\ \A i \in 1..Len(ps) : \A k \in 1..Len(each[i].events) :
             events[lens[i - 1] + k] = each[i].events[k]

\* a stack of seq(a, b) and pure(x) was called with two cycles: four events of
\* the first pattern, then two of the second
StackConcatenatesWitness ==
  /\ hist[1].op = "stack"
  /\ hist[1].patterns = <<seq(<<"a", "b">>), pure("x")>>
  /\ span = Span(R(0), R(2))
  /\ Values(events) = <<"a", "b", "a", "b", "x", "x">>

\* the call c has an empty pool, an unknown theme, an empty argument list or a
\* non-positive number
Degenerate(c) ==
  CASE c.op = "fromPool" -> Len(c.pool) = 0
    [] c.op = "fromTheme" -> ~InitialDisk[c.themeName].exists
    [] c.op = "seq" -> Len(c.values) = 0
    [] c.op \in {"stack", "cat"} -> Len(c.patterns) = 0
    [] c.op = "weave" -> Len(c.patterns) = 0 \/ c.count <= 0
    [] c.op = "alternate" -> Len(c.patterns) = 0 \/ RLe(c.cyclesEach, R(0))
    [] c.op \in {"fast", "slow"} -> RLe(c.factor, R(0))
    [] c.op = "every" -> c.n <= 0
    [] OTHER -> FALSE

\* C20 (degenerate inputs): a pattern built by fromPool with an empty pool,
\* fromTheme with an unknown theme, seq/stack/cat/weave/alternate with no
\* arguments, fast or slow with a factor <= 0, weave with count <= 0,
\* alternate with cyclesEach <= 0 or every with n <= 0 returns no events for
\* every span, without a throw, and compiles to a Timeline of zero events.
DegenerateSilent ==
  Degenerate(hist[1])
  => /\ ~fault
     /\ events = <<>>
     /\ ~IsNone(options) => (~IsNone(timeline) /\ timeline.events = <<>>)

\* C21 (totality): for every pattern built from the sources and combinators
\* and every span with start <= end, spans that reach negative time included
\* (the inner query of late(a, p) compiled over [0, cycles)), the call returns
\* a list of events and never throws.
AlgebraTotal ==
  (calls > 0 /\ RLe(span.start, span.end)) => ~fault

\* the file exists and reading or parsing it fails
FileFails(f) == f.exists /\ ~f.parses

\* the file parses and every entry of it has what raw.map reads
FileLoads(f) ==
  /\ f.exists /\ f.parses
  /\ \A i \in 1..Len(f.entries) : "difficulty" \in DOMAIN RawEntries[f.entries[i]]

\* the call on record read the file of its theme: loadMantrasForTheme always,
\* the others unless the cache they found held the theme
ReadItsFile(call) ==
  call.fn = "loadMantrasForTheme" \/ call.theme \notin DOMAIN call.cacheBefore

\* C22 (provider failure contained): when reading or parsing the file of a
\* theme fails, loadMantrasForTheme returns the empty list and throws nothing,
\* getMantrasForTheme returns the empty list and fromTheme the silent pattern
\* for that theme, and the other themes keep their records: the cache built
\* in that call holds them and they load as before.
ProviderFailureContained ==
  ~IsNone(loaded)
  => /\ ~loaded.fault
     /\ (FileFails(loaded.disk[loaded.theme]) /\ ReadItsFile(loaded))
          => /\ loaded.mantras = <<>>
             /\ loaded.fn = "fromTheme" => pat = silence
             /\ \A u \in ThemeNames \ {loaded.theme} :
                  FileLoads(loaded.disk[u])
                    => /\ loadMantrasForTheme(loaded.disk, u)
                            = [fault |-> FALSE, mantras |-> loaded.disk[u].entries]
                       /\ ~getMantrasThrows(loaded.disk, loaded.cache, u)
                       /\ ( /\ loaded.fn # "loadMantrasForTheme"
                            /\ loaded.cacheBefore = NoCache )
                          => getMantrasForTheme(loaded.disk, loaded.cache, u)
                               = loaded.disk[u].entries

\* the file of Focus was unreadable when getMantrasForTheme("Focus") built the
\* cache: nothing for Focus, both records of Calm in the cache
ProviderFailureContainedWitness ==
  /\ ~IsNone(loaded)
  /\ loaded.fn = "getMantrasForTheme"
  /\ loaded.theme = "Focus"
  /\ FileFails(loaded.disk["Focus"])
  /\ loaded.cacheBefore = NoCache
  /\ loaded.mantras = <<>>
  /\ "Focus" \notin DOMAIN mantraCache
  /\ mantraCache["Calm"] = <<"c1", "c2">>

\* the level the claim gives a raw difficulty
NormalLevel(raw) ==
  CASE raw \in {"basic", "BASIC"} -> "BASIC"
    [] raw \in {"Light", "LIGHT"} -> "LIGHT"
    [] raw \in {"MEDIUM", "MODERATE"} -> "MEDIUM"
    [] raw \in {"deep", "DEEP"} -> "DEEP"
    [] raw = "EXTREME" -> "EXTREME"
    [] OTHER -> "BASIC"

\* C23 (difficulty normalization): loadMantrasForTheme of a file that parses
\* returns one Mantra per entry, in order, without an error; its difficulty is
\* the entry's level whatever the case, MEDIUM for MODERATE, and BASIC when
\* the entry's difficulty is missing or not recognized.
DifficultyNormalized ==
  ( /\ ~IsNone(loaded)
    /\ loaded.fn = "loadMantrasForTheme"
    /\ loaded.disk[loaded.theme].exists
    /\ loaded.disk[loaded.theme].parses )
  => /\ ~loaded.fault
     /\ loaded.mantras = loaded.disk[loaded.theme].entries
     /\ \A i \in 1..Len(loaded.mantras) :
          MantraOf(loaded.mantras[i]).difficulty
            = NormalLevel(Field(RawEntries[loaded.mantras[i]], "difficulty"))

\* C27 (cache stability): with no clearCache() in between, a call of
\* getMantrasForTheme(t) returns what the previous call for t returned,
\* whatever happened to the files, for every theme name; and a call that
\* finds the cache cleared returns the records on disk.
CacheStable ==
  [][ /\ \A t \in ThemeNames :
          (served[t].called /\ served'[t].called)
            => served'[t].mantras = served[t].mantras
      /\ ( ( /\ ~IsNone(loaded)
             /\ loaded.fn = "getMantrasForTheme"
             /\ loaded.cacheBefore = NoCache )
           => loaded.mantras = loadMantrasForTheme(loaded.disk, loaded.theme).mantras )'
    ]_vars

\* difficulty d is at or below level l in BASIC < LIGHT < MEDIUM < DEEP < EXTREME
AtMost(d, l) ==
  /\ d \in {DIFFICULTY_ORDER[i] : i \in 1..Len(DIFFICULTY_ORDER)}
  /\ IndexOfDifficulty(d) <= IndexOfDifficulty(l)

\* C24 (difficulty filter): every event of fromTheme(theme, {maxDifficulty: L})
\* over any span, and every event of its compiled timeline, carries a record
\* of difficulty <= L; if no record of the theme qualifies the pattern is
\* silent.
DifficultyFilter ==
  (hist[1].op = "fromTheme" /\ "maxDifficulty" \in DOMAIN hist[1].opts)
  => LET level == hist[1].opts.maxDifficulty
         pool == getMantrasForTheme(InitialDisk, NoCache, hist[1].themeName)
     IN /\ ~fault
        /\ \A i \in 1..Len(events) :
             /\ isMantra(events[i].value)
             /\ AtMost(MantraOf(events[i].value).difficulty, level)
        /\ ~IsNone(timeline)
             => \A i \in 1..Len(timeline.events) :
                  /\ "metadata" \in DOMAIN timeline.events[i]
                  /\ AtMost(timeline.events[i].metadata.difficulty, level)
        /\ (\A i \in 1..Len(pool) : ~AtMost(MantraOf(pool[i]).difficulty, level))
             => (pat = silence /\ events = <<>>)

\* the events of the pattern handed to filterMantras, for the span called
FilterBase == Query(hist[1].pattern, span)

\* the pattern handed to filterMantras returned Mantras only
FilterCase ==
  /\ hist[1].op = "filterMantras"
  /\ ~IsNone(span)
  /\ ~FilterBase.fault
  /\ \A i \in 1..Len(FilterBase.events) : isMantra(FilterBase.events[i].value)

\* C25 as stated (filterMantras): for each of subject and dominant for which
\* a filter value is given, an event survives iff the record's tag is null
\* or undefined or equals the filter value; the survivors keep value, whole,
\* part and order, and with both filters an event must pass both.
FilterMantrasByTag ==
  FilterCase
  => /\ ~fault
     /\ events = SelectSeq(FilterBase.events, LAMBDA e :
          \A tag \in {"subject", "dominant"} :
            tag \in DOMAIN hist[1].opts
              => \/ MantraOf(e.value)[tag] \in {NullTag, Undefined}
                 \/ MantraOf(e.value)[tag] = hist[1].opts[tag])

\* C25 as amended (filterMantras): for each of subject and dominant for which
\* a non-empty filter value is given, an event survives iff the record's tag
\* is null, undefined or the empty string, or equals the filter value; the
\* survivors keep value, whole, part and order, and with both filters an event
\* must pass both.
FilterMantrasByTruthyTag ==
  FilterCase
  => /\ ~fault
     /\ events = SelectSeq(FilterBase.events, LAMBDA e :
          \A tag \in {"subject", "dominant"} :
            (tag \in DOMAIN hist[1].opts /\ hist[1].opts[tag] # "")
              => \/ MantraOf(e.value)[tag] \in {NullTag, Undefined, ""}
                 \/ MantraOf(e.value)[tag] = hist[1].opts[tag])

\* the five records of Focus were filtered by subject Doll and dominant
\* Master over a cycle: the untagged, the matching and the empty-tagged stay
FilterMantrasByTruthyTagWitness ==
  /\ hist[1].op = "filterMantras"
  /\ hist[1].opts = [subject |-> "Doll", dominant |-> "Master"]
  /\ span = Span(R(0), R(1))
  /\ Len(FilterBase.events) = 5
  /\ Values(events) = <<"f1", "f3", "f5">>

\* the record a timeline event was made of: the one whose line is its text
RecordOf(timelineEvent) ==
  MantraOf(CHOOSE n \in DOMAIN RawEntries : RawEntries[n].line = timelineEvent.text)

\* C26 (compile options subject and dominant): compile(pattern, {subject: s})
\* emits no timeline event for a record whose subject is present and
\* different from s, and likewise for dominant.
CompileFiltersTags ==
  (~IsNone(options) /\ ~IsNone(timeline))
  => \A i \in 1..Len(timeline.events) :
       "metadata" \in DOMAIN timeline.events[i]
         => \A tag \in {"subject", "dominant"} :
              tag \in DOMAIN options
                => \/ Falsy(RecordOf(timeline.events[i])[tag])
                   \/ RecordOf(timeline.events[i])[tag] = options[tag]

\* the (value, whole) pairs of a list of events
ValueWholes(evs) == { <<evs[i].value, evs[i].whole>> : i \in 1..Len(evs) }

\* the instants a query span is cut at
SplitPoints ==
  {Rat(k, 4) : k \in 1..(4 * MaxCycles - 1)} \cup {Rat(1, 3), Rat(1, 8), Rat(5, 3)}

\* the pattern was built without weave
NoWeave == \A i \in 1..Len(hist) : hist[i].op # "weave"

\* C28: for a pattern built from the sources and combinators other than
\* weave, and every a < b < c in non-negative time, the query of [a, c)
\* and the queries of [a, b) and [b, c) all return, and the (value, whole)
\* pairs of the first are the union of the pairs of the other two
QuerySplits ==
  (calls > 0 /\ NoWeave /\ RLe(R(0), span.start)) =>
    \A b \in SplitPoints : (RLt(span.start, b) /\ RLt(b, span.end)) =>
      \E l \in {Query(pat, Span(span.start, b))} :
      \E r \in {Query(pat, Span(b, span.end))} :
        /\ ~fault /\ ~l.fault /\ ~r.fault
        /\ ValueWholes(events) = ValueWholes(l.events) \cup ValueWholes(r.events)

\* C29: every event of a compiled timeline starts at or after 0 and
\* before totalDurationMs
TimelineBounds ==
  ~IsNone(timeline) =>
    \A k \in 1..Len(timeline.events) :
      /\ RLe(R(0), timeline.events[k].startMs)
      /\ RLt(timeline.events[k].startMs, R(timeline.totalDurationMs))

\* C30: every event of a fromPool pattern over a pool that is not empty
\* carries an element of the pool, whatever the order and the span queried
PoolMembership ==
  (calls > 0 /\ hist[1].op = "fromPool" /\ Len(hist[1].pool) > 0) =>
    \A i \in 1..Len(events) :
      \E j \in 1..Len(hist[1].pool) : events[i].value = hist[1].pool[j]

====
